---- MODULE Spec2Model ----
(***************************************************************************)
(* Model of the chat endpoint server/api/models/chat/index.post.ts:        *)
(* one request handled by defineEventHandler, either on the knowledge-base *)
(* (RAG) branch or on the tool-calling (agentic) branch, synchronously or  *)
(* as a stream of outbound events.  Collaborators (prisma, coreference     *)
(* resolution, retriever, reranker, chat model, tool registry, tools) are  *)
(* nondeterministic: every answer they can give, failure included, is a    *)
(* choice of the action that awaits them.  `calls` logs every collaborator *)
(* call in program order; `events` is what was written to the outbound     *)
(* stream; `replies` is what the handler returned to the HTTP layer.       *)
(***************************************************************************)
EXTENDS Integers, Sequences, FiniteSets, TLC

VARIABLES
    pc,                 \* position of the handler
    body,               \* request body as destructured at line 94
    knowledgebase,      \* result of prisma.knowledgeBase.findUnique
    query,              \* messages[messages.length - 1].content
    normalized,         \* normalizeMessages(messages) as passed to resolveCoreference
    reformulatedResult, \* output of resolveCoreference (line 116)
    reformulatedQuery,  \* reformulatedResult.output || query
    relevant_docs,      \* retriever.getRelevantDocuments(...)
    env,                \* process.env as read at line 129
    rerankedDocuments,  \* documents after the optional rerank
    promptContext,      \* documents formatted into the {context} slot
    connections,        \* MCP transports opened by client.connect and not closed
    mcpTools,           \* names listed by client.listTools()
    normalizedTools,    \* tools listed by mcpService.listTools()
    toolsMap,           \* name -> tool lookup built at lines 265-271
    boundTools,         \* names of the tools bound to the model
    chunks,             \* model chunks consumed so far, in arrival order
    gathered,           \* running concat of the chunks (GatheredResponse)
    toolIdx,            \* index of the next tool call of the for-of loop
    streamState,        \* "none" | "open" | "closed" | "errored"
    events,             \* events written to the outbound stream
    replies,            \* HTTP-level results of the handler
    calls,              \* collaborator calls, in program order
    callerGone          \* the caller has disconnected from the response

vars == << pc, body, knowledgebase, query, normalized, reformulatedResult,
           reformulatedQuery, relevant_docs, env, rerankedDocuments, promptContext,
           connections, mcpTools, normalizedTools, toolsMap, boundTools, chunks,
           gathered, toolIdx, streamState, events, replies, calls, callerGone >>

ragVars == << knowledgebase, query, normalized, reformulatedResult,
              reformulatedQuery, relevant_docs, env, rerankedDocuments, promptContext >>

agentVars == << connections, mcpTools, normalizedTools, toolsMap, boundTools,
                gathered, toolIdx >>

(***************************************************************************)
(* Bounds and program constants                                            *)
(***************************************************************************)
MaxDocs == 5        \* longest retriever result
MaxChunks == 2      \* most chunks a model stream yields
MaxTools == 2       \* longest tool-registry listing
TopN == 4           \* topN of the rerank options

(***************************************************************************)
(* Values                                                                  *)
(***************************************************************************)
Undefined == "<undefined>"
NoTool == "<none>"
NoKb == 0           \* a falsy knowledgebaseId (absent, 0)

Roles == {"user", "assistant"}
Families == {"Anthropic", "Ollama", "OpenAI"}
ToolNames == {"calculator", "read_query"}
ToolCallIds == {Undefined, "", "t1"}

User(c) == [role |-> "user", content |-> c, toolCallId |-> Undefined, toolResult |-> FALSE]
Assistant(c) == [role |-> "assistant", content |-> c, toolCallId |-> Undefined, toolResult |-> FALSE]
ToolTurn(c, id) == [role |-> "user", content |-> c, toolCallId |-> id, toolResult |-> TRUE]

\* Request message lists: at least one turn, contents distinct by position.
Messages ==
    { << User("q1") >>,
      << User("q1"), Assistant("a1"), User("q2") >>,
      << User("q1"), Assistant("a1") >> }
    \cup { << User("q1"), ToolTurn("r1", id) >> : id \in ToolCallIds }
    \cup { << ToolTurn("r1", Undefined), User("q2") >> }

Bodies(kbs, fams, msgs) ==
    [knowledgebaseId : kbs, family : fams, messages : msgs, stream : BOOLEAN]

RagBodies == Bodies({1, 2}, {"OpenAI"}, Messages)
AgentBodies == Bodies({NoKb}, Families, { << User("q1") >>, << User("q1"), ToolTurn("r1", "t1") >> })

NoBody == [knowledgebaseId |-> NoKb, family |-> "", messages |-> << >>, stream |-> FALSE]
NoEnv == [COHERE_API_KEY |-> FALSE, COHERE_BASE_URL |-> FALSE, COHERE_MODEL |-> FALSE]
Envs == [COHERE_API_KEY : BOOLEAN, COHERE_BASE_URL : BOOLEAN, COHERE_MODEL : BOOLEAN]

(***************************************************************************)
(* Helpers                                                                 *)
(***************************************************************************)
Call(op, arg) == [op |-> op, arg |-> arg]
Ops(log) == [i \in 1..Len(log) |-> log[i].op]
CountOp(log, op) == Cardinality({i \in 1..Len(log) : log[i].op = op})

TextEvent(k) == [type |-> "text", ref |-> k, docs |-> << >>]
DocsEvent(d) == [type |-> "relevant_documents", ref |-> 0, docs |-> d]
ToolResultEvent(id) == [type |-> "tool_result", ref |-> id, docs |-> << >>]

Min(a, b) == IF a < b THEN a ELSE b

(***************************************************************************)
(* Pure functions of the source                                            *)
(***************************************************************************)
\* transformMessages: every turn becomes the pair [role, content].
transformMessages(messages) ==
    [i \in 1..Len(messages) |-> << messages[i].role, messages[i].content >>]

\* serializeMessages: "role: content" per turn, in order (the join is kept
\* as the sequence of its lines).
serializeMessages(messages) ==
    [i \in 1..Len(messages) |-> [role |-> messages[i].role, content |-> messages[i].content]]

RECURSIVE normalizeMessages(_)
normalizeMessages(messages) ==
    IF messages = << >> THEN << >>
    ELSE LET message == Head(messages)
             rest == normalizeMessages(Tail(messages))
         IN  IF message.toolResult
             THEN << [kind |-> "tool", content |-> message.content,
                      tool_call_id |-> message.toolCallId] >> \o rest
             ELSE IF message.role = "user"
             THEN << [kind |-> "human", content |-> message.content,
                      tool_call_id |-> Undefined] >> \o rest
             ELSE IF message.role = "assistant"
             THEN << [kind |-> "ai", content |-> message.content,
                      tool_call_id |-> Undefined] >> \o rest
             ELSE rest

\* The rerank condition without its COHERE_MODEL conjunct.
RerankConfiguredNoModel(e) ==
    e.COHERE_API_KEY \/ e.COHERE_BASE_URL

\* The rerank condition of line 129.
RerankConfigured(e) ==
    (e.COHERE_API_KEY \/ e.COHERE_BASE_URL) /\ e.COHERE_MODEL

\* CohereRerank.compressDocuments with topN: the documents re-ordered by the
\* service's scores and cut to topN.  The re-ordering is a rotation by k.
Rotate(docs, k) ==
    [i \in 1..Len(docs) |-> docs[((i + k - 1) % Len(docs)) + 1]]
compressDocuments(docs, k, topN) ==
    IF docs = << >> THEN << >>
    ELSE SubSeq(Rotate(docs, k), 1, Min(topN, Len(docs)))

\* The reduce of lines 267-270: later tools shadow earlier ones of the same name.
RECURSIVE buildToolsMap(_, _)
buildToolsMap(tools, i) ==
    IF i > Len(tools) THEN [n \in {} |-> 0]
    ELSE LET later == buildToolsMap(tools, i + 1)
         IN  IF tools[i] \in DOMAIN later THEN later
             ELSE [n \in DOMAIN later \cup {tools[i]} |->
                      IF n = tools[i] THEN i ELSE later[n]]

\* concat(gathered, chunk): the tool calls completed by the chunk are appended.
concat(g, chunk) ==
    [tool_calls |-> IF chunk.tool = NoTool THEN g.tool_calls
                    ELSE Append(g.tool_calls, [name |-> chunk.tool, id |-> chunk.seq])]
NoGathered == [tool_calls |-> << >>]

(***************************************************************************)
(* Initial state: no request read yet                                      *)
(***************************************************************************)
Init ==
    /\ pc = "start"
    /\ body = NoBody
    /\ knowledgebase = "unset"
    /\ query = Undefined
    /\ normalized = << >>
    /\ reformulatedResult = Undefined
    /\ reformulatedQuery = Undefined
    /\ relevant_docs = << >>
    /\ env = NoEnv
    /\ rerankedDocuments = << >>
    /\ promptContext = << >>
    /\ connections = 0
    /\ mcpTools = {}
    /\ normalizedTools = << >>
    /\ toolsMap = [n \in {} |-> 0]
    /\ boundTools = {}
    /\ chunks = << >>
    /\ gathered = NoGathered
    /\ toolIdx = 1
    /\ streamState = "none"
    /\ events = << >>
    /\ replies = << >>
    /\ calls = << >>
    /\ callerGone = FALSE

(***************************************************************************)
(* Line 94-96: read the body and choose the branch                         *)
(***************************************************************************)
ReadBody(bodies) ==
    /\ pc = "start"
    /\ \E b \in bodies :
          /\ body' = b
          /\ pc' = IF b.knowledgebaseId # NoKb THEN "findKb" ELSE "connect"
    /\ UNCHANGED << ragVars, agentVars, chunks, streamState, events, replies, calls,
                    callerGone >>

(***************************************************************************)
(* RAG branch, lines 96-196                                                *)
(***************************************************************************)
\* FindKb without the return of line 106: the 404 is set and the handler goes on.
FindKbNoReturn ==
    /\ pc = "findKb"
    /\ \E found \in BOOLEAN :
          /\ knowledgebase' = IF found THEN "found" ELSE "null"
          /\ calls' = Append(calls, Call("findUnique", << >>))
          /\ pc' = "prepare"
          /\ replies' = IF found THEN replies
                        ELSE Append(replies, [code |-> 404, content |-> Undefined,
                                              relevant_docs |-> << >>])
    /\ UNCHANGED << body, query, normalized, reformulatedQuery, relevant_docs, env,
                    rerankedDocuments, promptContext, agentVars, chunks,
                    streamState, events, reformulatedResult, callerGone >>

\* Lines 98-107: look the knowledge base up; 404 and return when it is absent.
FindKb ==
    /\ pc = "findKb"
    /\ \E found \in BOOLEAN :
          /\ knowledgebase' = IF found THEN "found" ELSE "null"
          /\ calls' = Append(calls, Call("findUnique", << >>))
          /\ IF found
             THEN /\ pc' = "prepare"
                  /\ replies' = replies
             ELSE /\ pc' = "done"
                  /\ replies' = Append(replies, [code |-> 404, content |-> Undefined,
                                                 relevant_docs |-> << >>])
    /\ UNCHANGED << body, query, normalized, reformulatedQuery, relevant_docs, env,
                    rerankedDocuments, promptContext, agentVars, chunks,
                    streamState, events, reformulatedResult, callerGone >>

\* Lines 109-114: embeddings, retriever, chat model, and the raw query.
Prepare ==
    /\ pc = "prepare"
    /\ query' = body.messages[Len(body.messages)].content
    /\ calls' = calls \o << Call("createEmbeddings", << >>),
                            Call("createRetriever", << >>),
                            Call("createChatModel", << >>) >>
    /\ pc' = "coref"
    /\ UNCHANGED << body, knowledgebase, normalized, reformulatedQuery, relevant_docs,
                    env, rerankedDocuments, promptContext, agentVars, chunks,
                    streamState, events, replies, reformulatedResult, callerGone >>

\* What an exception escaping the handler leaves behind: a 5xx from the
\* surrounding server when no stream was started.
Abort ==
    /\ pc' = "failed"
    /\ replies' = Append(replies, [code |-> 500, content |-> Undefined,
                                   relevant_docs |-> << >>])

\* Coref without the "|| query" of line 121: an empty output is the query.
CorefNoFallback ==
    /\ pc = "coref"
    /\ normalized' = normalizeMessages(body.messages)
    /\ calls' = Append(calls, Call("resolveCoreference", normalizeMessages(body.messages)))
    /\ \/ \E output \in {"", "standalone"} :
             /\ reformulatedResult' = output
             /\ reformulatedQuery' = output
             /\ pc' = "retrieve"
             /\ replies' = replies
       \/ /\ Abort
          /\ UNCHANGED << reformulatedResult, reformulatedQuery >>
    /\ UNCHANGED << body, knowledgebase, query, relevant_docs, env, rerankedDocuments,
                    promptContext, agentVars, chunks, streamState, events, callerGone >>

\* Lines 116-122: normalize the turns, resolve coreferences, fall back to the
\* raw query when the output is empty.  The await is not guarded: a rejection
\* escapes the handler.
Coref ==
    /\ pc = "coref"
    /\ normalized' = normalizeMessages(body.messages)
    /\ calls' = Append(calls, Call("resolveCoreference", normalizeMessages(body.messages)))
    /\ \/ \E output \in {"", "standalone"} :
             /\ reformulatedResult' = output
             /\ reformulatedQuery' = IF output # "" THEN output ELSE query
             /\ pc' = "retrieve"
             /\ replies' = replies
       \/ /\ Abort
          /\ UNCHANGED << reformulatedResult, reformulatedQuery >>
    /\ UNCHANGED << body, knowledgebase, query, relevant_docs, env, rerankedDocuments,
                    promptContext, agentVars, chunks, streamState, events, callerGone >>

\* Line 124: the retriever answers with n documents, most relevant first
\* (a document is named by its rank in that answer).
Retrieve ==
    /\ pc = "retrieve"
    /\ \E n \in 0..MaxDocs :
          relevant_docs' = [i \in 1..n |-> i]
    /\ calls' = Append(calls, Call("getRelevantDocuments", reformulatedQuery))
    /\ pc' = "rerank"
    /\ UNCHANGED << body, knowledgebase, query, normalized, reformulatedQuery, env,
                    rerankedDocuments, promptContext, agentVars, chunks,
                    streamState, events, replies, reformulatedResult, callerGone >>

\* Rerank with a guarded await: when the reranker fails the retriever's
\* result is used in its place.
RerankSoftFail ==
    /\ pc = "rerank"
    /\ \E e \in Envs :
          /\ env' = e
          /\ IF RerankConfigured(e)
             THEN /\ calls' = Append(calls, Call("compressDocuments", reformulatedQuery))
                  /\ \/ \E k \in 0..Len(relevant_docs) :
                           rerankedDocuments' = compressDocuments(relevant_docs, k, TopN)
                     \/ rerankedDocuments' = relevant_docs
             ELSE /\ rerankedDocuments' = relevant_docs
                  /\ calls' = calls
    /\ pc' = "chain"
    /\ UNCHANGED << body, knowledgebase, query, normalized, reformulatedResult,
                    reformulatedQuery, relevant_docs, promptContext, agentVars, chunks,
                    streamState, events, replies, callerGone >>

\* Lines 127-140: rerank when Cohere is configured; the await is not guarded.
Rerank ==
    /\ pc = "rerank"
    /\ \E e \in Envs :
          /\ env' = e
          /\ IF RerankConfigured(e)
             THEN /\ calls' = Append(calls, Call("compressDocuments", reformulatedQuery))
                  /\ \/ \E k \in 0..Len(relevant_docs) :
                           /\ rerankedDocuments' = compressDocuments(relevant_docs, k, TopN)
                           /\ pc' = "chain"
                           /\ replies' = replies
                     \/ /\ Abort
                        /\ rerankedDocuments' = relevant_docs
             ELSE /\ rerankedDocuments' = relevant_docs
                  /\ calls' = calls
                  /\ pc' = "chain"
                  /\ replies' = replies
    /\ UNCHANGED << body, knowledgebase, query, normalized, reformulatedQuery,
                    relevant_docs, promptContext, agentVars, chunks, streamState,
                    events, reformulatedResult, callerGone >>

\* Lines 156-169: chain.invoke renders the context from rerankedDocuments and
\* calls the model; the reply carries relevant_docs.
RagInvoke ==
    /\ pc = "chain"
    /\ ~body.stream
    /\ promptContext' = rerankedDocuments
    /\ calls' = Append(calls, Call("model.invoke", serializeMessages(body.messages)))
    /\ \/ /\ replies' = Append(replies, [code |-> 200, content |-> "answer",
                                         relevant_docs |-> relevant_docs])
          /\ pc' = "done"
       \/ Abort
    /\ UNCHANGED << body, knowledgebase, query, normalized, reformulatedQuery,
                    relevant_docs, env, rerankedDocuments, agentVars, chunks,
                    streamState, events, reformulatedResult, callerGone >>

\* Lines 171-177, 196: open the event stream over chain.stream.
RagStreamStart ==
    /\ pc = "chain"
    /\ body.stream
    /\ promptContext' = rerankedDocuments
    /\ calls' = Append(calls, Call("model.stream", serializeMessages(body.messages)))
    /\ \/ /\ streamState' = "open"
          /\ pc' = "ragPump"
          /\ replies' = replies
       \/ /\ Abort
          /\ streamState' = streamState
    /\ UNCHANGED << body, knowledgebase, query, normalized, reformulatedQuery,
                    relevant_docs, env, rerankedDocuments, agentVars, chunks, events,
                    reformulatedResult, callerGone >>

\* RagChunk without the guard of line 179: every chunk is yielded.
RagChunkEmitsAll ==
    /\ pc = "ragPump"
    /\ Len(chunks) < MaxChunks
    /\ \E defined \in BOOLEAN :
          LET chunk == [seq |-> Len(chunks) + 1, hasContent |-> defined, tool |-> NoTool]
          IN  /\ chunks' = Append(chunks, chunk)
              /\ events' = Append(events, TextEvent(chunk.seq))
    /\ UNCHANGED << pc, body, ragVars, agentVars, streamState, replies, calls, callerGone >>

\* Lines 178-188: one chunk of the model; yielded when its content is defined.
RagChunk ==
    /\ pc = "ragPump"
    /\ Len(chunks) < MaxChunks
    /\ \E defined \in BOOLEAN :
          LET chunk == [seq |-> Len(chunks) + 1, hasContent |-> defined, tool |-> NoTool]
          IN  /\ chunks' = Append(chunks, chunk)
              /\ events' = IF chunk.hasContent
                           THEN Append(events, TextEvent(chunk.seq))
                           ELSE events
    /\ UNCHANGED << pc, body, ragVars, agentVars, streamState, replies, calls, callerGone >>

\* The model stream throws inside the generator: the Readable is destroyed.
RagStreamFail ==
    /\ pc = "ragPump"
    /\ pc' = "failed"
    /\ streamState' = "errored"
    /\ UNCHANGED << body, ragVars, agentVars, chunks, events, replies, calls, callerGone >>

\* Lines 190-194: the model stream is exhausted; yield the documents chunk.
RagDocs ==
    /\ pc = "ragPump"
    /\ events' = Append(events, DocsEvent(rerankedDocuments))
    /\ pc' = "ragEnd"
    /\ UNCHANGED << body, ragVars, agentVars, chunks, streamState, replies, calls,
                    callerGone >>

\* Line 195: the generator returns, which ends the Readable.
RagEnd ==
    /\ pc = "ragEnd"
    /\ streamState' = "closed"
    /\ pc' = "done"
    /\ UNCHANGED << body, ragVars, agentVars, chunks, events, replies, calls, callerGone >>

NextRag ==
    \/ ReadBody(RagBodies)
    \/ FindKb
    \/ Prepare
    \/ Coref
    \/ Retrieve
    \/ Rerank
    \/ RagInvoke
    \/ RagStreamStart
    \/ RagChunk
    \/ RagStreamFail
    \/ RagDocs
    \/ RagEnd

SpecRag == Init /\ [][NextRag]_vars

(***************************************************************************)
(* Agentic branch, lines 197-349                                           *)
(***************************************************************************)
\* Tool listings the registry can answer with: names in order, repeats allowed.
RECURSIVE SeqsUpTo(_, _)
SeqsUpTo(S, n) ==
    IF n = 0 THEN { << >> }
    ELSE LET shorter == SeqsUpTo(S, n - 1)
         IN  shorter \cup { Append(q, x) : q \in shorter, x \in S }

\* Lines 227-261: open the MCP transport, list the client's tools, create the
\* model and bind the client's tools when there are any.
Connect ==
    /\ pc = "connect"
    /\ connections' = connections + 1
    /\ \E listed \in SUBSET {"read_query"} :
          /\ mcpTools' = listed
          /\ boundTools' = listed
    /\ calls' = calls \o << Call("client.connect", << >>),
                            Call("client.listTools", << >>),
                            Call("createChatModel", << >>) >>
    /\ pc' = "catalog"
    /\ UNCHANGED << body, ragVars, normalizedTools, toolsMap, gathered, toolIdx,
                    chunks, streamState, events, replies, callerGone >>

\* Lines 263-276: list the registry's tools, build the lookup map, and bind
\* the registry's tools for the Anthropic family or a ChatOllama model.
Catalog ==
    /\ pc = "catalog"
    /\ \E listed \in SeqsUpTo(ToolNames, MaxTools) :
          /\ normalizedTools' = listed
          /\ toolsMap' = IF Len(listed) > 0 THEN buildToolsMap(listed, 1)
                         ELSE [n \in {} |-> 0]
          /\ boundTools' = IF body.family \in {"Anthropic", "Ollama"} /\ Len(listed) > 0
                           THEN {listed[i] : i \in 1..Len(listed)}
                           ELSE boundTools
    /\ calls' = Append(calls, Call("mcpService.listTools", << >>))
    /\ pc' = "model"
    /\ UNCHANGED << body, ragVars, connections, mcpTools, gathered, toolIdx, chunks,
                    streamState, events, replies, callerGone >>

\* Lines 278-287: one invoke; the reply carries the content of the message,
\* whatever tool calls the message holds.
AgentInvoke ==
    /\ pc = "model"
    /\ ~body.stream
    /\ calls' = Append(calls, Call("model.invoke", transformMessages(body.messages)))
    /\ \/ \E tool_calls \in SeqsUpTo(ToolNames, MaxChunks) :
             /\ gathered' = [tool_calls |->
                               [i \in 1..Len(tool_calls) |-> [name |-> tool_calls[i], id |-> i]]]
             /\ replies' = Append(replies, [code |-> 200, content |-> "answer",
                                            relevant_docs |-> << >>])
             /\ pc' = "done"
       \/ /\ Abort
          /\ gathered' = gathered
    /\ UNCHANGED << body, ragVars, connections, mcpTools, normalizedTools, toolsMap,
                    boundTools, toolIdx, chunks, streamState, events, callerGone >>

\* Lines 289-298, 348: start the model stream and hand the ReadableStream to
\* sendStream.
AgentStreamStart ==
    /\ pc = "model"
    /\ body.stream
    /\ calls' = Append(calls, Call("model.stream", transformMessages(body.messages)))
    /\ \/ /\ streamState' = "open"
          /\ pc' = "pump"
          /\ replies' = replies
       \/ /\ Abort
          /\ streamState' = streamState
    /\ UNCHANGED << body, ragVars, agentVars, chunks, events, callerGone >>

\* AgentChunk with the guard of the RAG generator (line 179): a chunk whose
\* content is undefined is not enqueued.
AgentChunkDropsUndefined ==
    /\ pc = "pump"
    /\ Len(chunks) < MaxChunks
    /\ \E t \in ToolNames \cup {NoTool}, defined \in BOOLEAN :
          LET chunk == [seq |-> Len(chunks) + 1, hasContent |-> defined, tool |-> t]
          IN  /\ chunks' = Append(chunks, chunk)
              /\ gathered' = concat(gathered, chunk)
              /\ events' = IF chunk.hasContent
                           THEN Append(events, TextEvent(chunk.seq))
                           ELSE events
    /\ UNCHANGED << pc, body, ragVars, connections, mcpTools, normalizedTools, toolsMap,
                    boundTools, toolIdx, streamState, replies, calls, callerGone >>

\* Lines 300-320: fold the chunk into gathered and enqueue its content, defined
\* or not (JSON.stringify leaves an undefined content out of the message).
AgentChunk ==
    /\ pc = "pump"
    /\ Len(chunks) < MaxChunks
    /\ \E t \in ToolNames \cup {NoTool}, defined \in BOOLEAN :
          LET chunk == [seq |-> Len(chunks) + 1, hasContent |-> defined, tool |-> t]
          IN  /\ chunks' = Append(chunks, chunk)
              /\ gathered' = concat(gathered, chunk)
              /\ events' = Append(events, TextEvent(chunk.seq))
    /\ UNCHANGED << pc, body, ragVars, connections, mcpTools, normalizedTools, toolsMap,
                    boundTools, toolIdx, streamState, replies, calls, callerGone >>

\* The model stream throws inside start(): the stream is errored.
AgentStreamFail ==
    /\ pc = "pump"
    /\ pc' = "failed"
    /\ streamState' = "errored"
    /\ UNCHANGED << body, ragVars, agentVars, chunks, events, replies, calls, callerGone >>

\* Lines 322-324: the model stream is exhausted; enter the tool loop when
\* gathered holds tool calls, else start() returns.
AgentStreamEnd ==
    /\ pc = "pump"
    /\ pc' = IF Len(gathered.tool_calls) > 0 THEN "tools" ELSE "done"
    /\ UNCHANGED << body, ragVars, agentVars, chunks, streamState, events, replies, calls,
                    callerGone >>

\* ToolCallStep that uses a tool up: the entry found is deleted from the map.
ToolCallStepConsumesTool ==
    /\ pc = "tools"
    /\ toolIdx <= Len(gathered.tool_calls)
    /\ LET toolCall == gathered.tool_calls[toolIdx]
       IN  IF toolCall.name \in DOMAIN toolsMap
           THEN /\ calls' = Append(calls, Call("tool.invoke", toolCall.id))
                /\ toolsMap' = [n \in DOMAIN toolsMap \ {toolCall.name} |-> toolsMap[n]]
                /\ \/ /\ events' = Append(events, ToolResultEvent(toolCall.id))
                      /\ toolIdx' = toolIdx + 1
                      /\ UNCHANGED << pc, streamState >>
                   \/ /\ pc' = "failed"
                      /\ streamState' = "errored"
                      /\ UNCHANGED << events, toolIdx >>
           ELSE /\ toolIdx' = toolIdx + 1
                /\ UNCHANGED << pc, streamState, events, calls, toolsMap >>
    /\ UNCHANGED << body, ragVars, connections, mcpTools, normalizedTools,
                    boundTools, gathered, chunks, replies, callerGone >>

\* ToolCallStep without the guard of line 328: the tool is invoked whether
\* or not the lookup found one.
ToolCallStepNoLookup ==
    /\ pc = "tools"
    /\ toolIdx <= Len(gathered.tool_calls)
    /\ LET toolCall == gathered.tool_calls[toolIdx]
       IN  /\ calls' = Append(calls, Call("tool.invoke", toolCall.id))
           /\ \/ /\ events' = Append(events, ToolResultEvent(toolCall.id))
                 /\ toolIdx' = toolIdx + 1
                 /\ UNCHANGED << pc, streamState >>
              \/ /\ pc' = "failed"
                 /\ streamState' = "errored"
                 /\ UNCHANGED << events, toolIdx >>
    /\ UNCHANGED << body, ragVars, connections, mcpTools, normalizedTools, toolsMap,
                    boundTools, gathered, chunks, replies, callerGone >>

\* Lines 324-343: one iteration of the tool loop.  The invoke is not guarded:
\* a throw rejects start() and errors the stream.
ToolCallStep ==
    /\ pc = "tools"
    /\ toolIdx <= Len(gathered.tool_calls)
    /\ LET toolCall == gathered.tool_calls[toolIdx]
       IN  IF toolCall.name \in DOMAIN toolsMap
           THEN /\ calls' = Append(calls, Call("tool.invoke", toolCall.id))
                /\ \/ /\ events' = Append(events, ToolResultEvent(toolCall.id))
                      /\ toolIdx' = toolIdx + 1
                      /\ UNCHANGED << pc, streamState >>
                   \/ /\ pc' = "failed"
                      /\ streamState' = "errored"
                      /\ UNCHANGED << events, toolIdx >>
           ELSE /\ toolIdx' = toolIdx + 1
                /\ UNCHANGED << pc, streamState, events, calls >>
    /\ UNCHANGED << body, ragVars, connections, mcpTools, normalizedTools, toolsMap,
                    boundTools, gathered, chunks, replies, callerGone >>

\* ToolLoopEnd of a multi-round loop: the model is called again with the
\* tool results.
ToolLoopEndResumes ==
    /\ pc = "tools"
    /\ toolIdx > Len(gathered.tool_calls)
    /\ pc' = "model"
    /\ UNCHANGED << body, ragVars, agentVars, chunks, streamState, events, replies, calls,
                    callerGone >>

\* Line 345: the loop is over and start() returns.  Nothing closes the controller.
ToolLoopEnd ==
    /\ pc = "tools"
    /\ toolIdx > Len(gathered.tool_calls)
    /\ pc' = "done"
    /\ UNCHANGED << body, ragVars, agentVars, chunks, streamState, events, replies, calls,
                    callerGone >>

\* The caller goes away while start() is running.  The ReadableStream of
\* lines 298-346 has no cancel() and llm.stream gets no abort signal: the
\* handler is not told.
Disconnect ==
    /\ pc \in {"pump", "tools"}
    /\ streamState = "open"
    /\ ~callerGone
    /\ callerGone' = TRUE
    /\ UNCHANGED << pc, body, ragVars, agentVars, chunks, streamState, events, replies,
                    calls >>

NextAgent ==
    \/ ReadBody(AgentBodies)
    \/ Disconnect
    \/ Connect
    \/ Catalog
    \/ AgentInvoke
    \/ AgentStreamStart
    \/ AgentChunk
    \/ AgentStreamFail
    \/ AgentStreamEnd
    \/ ToolCallStep
    \/ ToolLoopEnd

SpecAgent == Init /\ [][NextAgent]_vars

Next ==
    \/ ReadBody(RagBodies \cup AgentBodies)
    \/ FindKb \/ Prepare \/ Coref \/ Retrieve \/ Rerank
    \/ RagInvoke \/ RagStreamStart \/ RagChunk \/ RagStreamFail \/ RagDocs \/ RagEnd
    \/ Connect \/ Catalog \/ AgentInvoke \/ AgentStreamStart
    \/ AgentChunk \/ AgentStreamFail \/ AgentStreamEnd \/ ToolCallStep \/ ToolLoopEnd
    \/ Disconnect

Spec == Init /\ [][Next]_vars

(***************************************************************************)
(* Vocabulary of the properties                                            *)
(***************************************************************************)
ModelOps == {"model.invoke", "model.stream"}
ModelCalls == CountOp(calls, "model.invoke") + CountOp(calls, "model.stream")
LastOp == IF Len(calls) = 0 THEN "" ELSE calls[Len(calls)].op

InMap(c) == c.name \in DOMAIN toolsMap
ResolvedCalls(tcs) == SelectSeq(tcs, InMap)
ToolResults(tcs) == [i \in 1..Len(tcs) |-> ToolResultEvent(tcs[i].id)]
TextEvents(chs) == [i \in 1..Len(chs) |-> TextEvent(chs[i].seq)]
IsToolResult(e) == e.type = "tool_result"
IsToolInvoke(c) == c.op = "tool.invoke"

\* Tool calls the loop has gone past, and the ids it invoked a tool for.
Processed == SubSeq(gathered.tool_calls, 1, toolIdx - 1)
InvokedIds == LET inv == SelectSeq(calls, IsToolInvoke)
              IN  [i \in 1..Len(inv) |-> inv[i].arg]
ToolThrew == pc = "failed" /\ LastOp = "tool.invoke"
AgentStreaming == body.stream /\ streamState # "none"

(***************************************************************************)
(* C1 as stated: when a streaming agentic request has consumed its chunks  *)
(* and finished its tool phase, the events are one text event per chunk in *)
(* arrival order followed by one tool_result event for each of the N       *)
(* gathered tool calls, in their order.                                    *)
(***************************************************************************)
C1_AllToolCallsHaveResults ==
    (AgentStreaming /\ pc = "done") =>
        events = TextEvents(chunks) \o ToolResults(gathered.tool_calls)

(***************************************************************************)
(* C1 amended: at every point of a streaming agentic request the events    *)
(* are one text event per consumed chunk, in arrival order, followed by    *)
(* the tool_result events of the tool calls gone past whose name is in the *)
(* lookup map, in gathered order; once the handler is done every gathered  *)
(* tool call has been gone past.  Hence no tool_result precedes a text.    *)
(***************************************************************************)
C1_StreamOrder ==
    AgentStreaming =>
        /\ events = TextEvents(chunks) \o ToolResults(ResolvedCalls(Processed))
        /\ pc = "pump" => toolIdx = 1
        /\ pc = "done" => toolIdx = Len(gathered.tool_calls) + 1

C1_Witness ==
    /\ AgentStreaming /\ pc = "done"
    /\ Len(chunks) = 2
    /\ Len(SelectSeq(events, IsToolResult)) = 2

(***************************************************************************)
(* C2: a streaming response that has emitted all its events (the handler   *)
(* is done) has its outbound stream closed.                                *)
(***************************************************************************)
C2_StreamClosedWhenDone ==
    (pc = "done" /\ streamState # "none") => streamState = "closed"

(***************************************************************************)
(* C3: when the knowledge-base lookup finds nothing, the request ends with *)
(* exactly one reply, a 404; the lookup is the only collaborator call, no  *)
(* stream is opened and no event is emitted.                               *)
(***************************************************************************)
C3_UnknownKbIs404 ==
    knowledgebase = "null" =>
        /\ pc = "done"
        /\ Len(replies) = 1 /\ replies[1].code = 404
        /\ Ops(calls) = << "findUnique" >>
        /\ events = << >>
        /\ streamState = "none"

C3_Witness ==
    /\ knowledgebase = "null"
    /\ body.knowledgebaseId # NoKb
    /\ Len(replies) = 1

(***************************************************************************)
(* C4: with a reranker configured, the evidence delivered to the caller    *)
(* (relevant_docs of the reply, the relevant_documents event) has at most  *)
(* TopN documents.                                                         *)
(***************************************************************************)
C4_EvidenceAtMostTopN ==
    RerankConfigured(env) =>
        /\ \A i \in 1..Len(replies) : Len(replies[i].relevant_docs) <= TopN
        /\ \A i \in 1..Len(events) : Len(events[i].docs) <= TopN

(***************************************************************************)
(* C5: a failure of resolveCoreference does not abort the request: the     *)
(* request is never failed with resolveCoreference as its last call.       *)
(***************************************************************************)
C5_CorefFailureNotFatal ==
    ~(pc = "failed" /\ LastOp = "resolveCoreference")

(***************************************************************************)
(* C6: for a request with a tool-result turn whose toolCallId is missing   *)
(* or empty, no normalized sequence is produced and resolveCoreference is  *)
(* never called.                                                           *)
(***************************************************************************)
BadToolTurn(m) == m.toolResult /\ m.toolCallId \in {Undefined, ""}
C6_BadToolTurnRejected ==
    (\E i \in 1..Len(body.messages) : BadToolTurn(body.messages[i])) =>
        /\ normalized = << >>
        /\ CountOp(calls, "resolveCoreference") = 0

(***************************************************************************)
(* C7: a tool invocation that throws does not abort the stream: the        *)
(* stream is never errored with a tool invocation as the last call.        *)
(***************************************************************************)
C7_ToolThrowDoesNotAbort ==
    ~(ToolThrew /\ streamState = "errored")

C10_SyncToolCallsInvoked ==
    (pc = "done" /\ ~body.stream /\ Len(replies) = 1) =>
        \A i \in 1..Len(gathered.tool_calls) :
            InMap(gathered.tool_calls[i]) =>
                \E j \in 1..Len(InvokedIds) : InvokedIds[j] = gathered.tool_calls[i].id

(***************************************************************************)
(* C11: a failure of the configured reranker fails the request: the model  *)
(* is not invoked, no reply carries a message, no stream is opened and no  *)
(* event is emitted; and whenever the reranker was called, what reaches    *)
(* the prompt context and the stream is a result of the reranker, never    *)
(* the retriever's result put in its place.                                *)
(***************************************************************************)
RerankResults == { compressDocuments(relevant_docs, k, TopN) : k \in 0..Len(relevant_docs) }
IsDocsEvent(e) == e.type = "relevant_documents"
C11_RerankFailureFailsRequest ==
    /\ (pc = "failed" /\ LastOp = "compressDocuments") =>
          /\ ModelCalls = 0
          /\ \A i \in 1..Len(replies) : replies[i].code = 500
          /\ events = << >>
          /\ streamState = "none"
    /\ CountOp(calls, "compressDocuments") > 0 =>
          /\ ModelCalls > 0 => promptContext \in RerankResults
          /\ \A i \in 1..Len(events) :
                IsDocsEvent(events[i]) => events[i].docs \in RerankResults

C11_Witness ==
    /\ pc = "failed"
    /\ LastOp = "compressDocuments"
    /\ Len(relevant_docs) = MaxDocs
    /\ Len(replies) = 1

(***************************************************************************)
(* C12: the reranker is called only when an API key or a base URL is set   *)
(* and a model is set; otherwise it is never called, and the documents of  *)
(* the prompt context and of the relevant_documents event are the          *)
(* retriever's result, same elements in the same order.                    *)
(***************************************************************************)
PastRerank == CountOp(calls, "getRelevantDocuments") = 1 /\ pc # "rerank"
C12_RerankOnlyWhenConfigured ==
    LET configured == (env.COHERE_API_KEY \/ env.COHERE_BASE_URL) /\ env.COHERE_MODEL
    IN  /\ CountOp(calls, "compressDocuments") > 0 => configured
        /\ (PastRerank /\ configured) => CountOp(calls, "compressDocuments") = 1
        /\ (PastRerank /\ ~configured) =>
              /\ CountOp(calls, "compressDocuments") = 0
              /\ rerankedDocuments = relevant_docs
              /\ ModelCalls > 0 => promptContext = relevant_docs
              /\ \A i \in 1..Len(events) :
                    IsDocsEvent(events[i]) => events[i].docs = relevant_docs

C12_Witness ==
    /\ pc = "done"
    /\ env.COHERE_API_KEY /\ ~env.COHERE_MODEL
    /\ Len(relevant_docs) = MaxDocs
    /\ Len(events) > 0
    /\ IsDocsEvent(events[Len(events)])

(***************************************************************************)
(* C13: when an agentic request has ended (reply returned, stream handler  *)
(* finished, or failure) no MCP connection it opened is still open.        *)
(***************************************************************************)
C13_ConnectionsReleased ==
    pc \in {"done", "failed"} => connections = 0

(***************************************************************************)
(* C14: in a streaming agentic request that ran its tool loop to the end,  *)
(* every gathered tool call named "calculator" was found in the lookup map *)
(* and has a tool_result event.                                            *)
(***************************************************************************)
C14_CalculatorInCatalog ==
    (AgentStreaming /\ pc = "done") =>
        \A i \in 1..Len(gathered.tool_calls) :
            gathered.tool_calls[i].name = "calculator" =>
                /\ "calculator" \in DOMAIN toolsMap
                /\ \E j \in 1..Len(events) :
                      events[j] = ToolResultEvent(gathered.tool_calls[i].id)

(***************************************************************************)
(* C15: once resolveCoreference has answered, the retrieval query is its   *)
(* output when that is non-empty and the content of the last message when  *)
(* it is empty; the retriever is called at most once, and exactly once,    *)
(* with that query, in every request that went on to retrieval.            *)
(***************************************************************************)
IsRetrieve(c) == c.op = "getRelevantDocuments"
C15_RetrievalQuery ==
    LET last == body.messages[Len(body.messages)].content
        retrievals == SelectSeq(calls, IsRetrieve)
    IN  /\ Len(retrievals) <= 1
        /\ reformulatedResult # Undefined =>
              /\ reformulatedResult # "" => reformulatedQuery = reformulatedResult
              /\ reformulatedResult = "" => reformulatedQuery = last
              /\ pc # "retrieve" =>
                    /\ Len(retrievals) = 1
                    /\ retrievals[1].arg = reformulatedQuery
        /\ reformulatedResult = Undefined => Len(retrievals) = 0

C15_Witness ==
    /\ reformulatedResult = ""
    /\ Len(body.messages) = 3
    /\ reformulatedQuery = "q2"
    /\ CountOp(calls, "getRelevantDocuments") = 1

(***************************************************************************)
(* C16: once the lookup map is built no step of the request changes it,    *)
(* and two tool calls of the same name that the loop has gone past got the *)
(* same answer from the lookup: both were invoked or neither was.          *)
(***************************************************************************)
CatalogBuilt == pc \notin {"start", "connect", "catalog"}
WasInvoked(c) == \E j \in 1..Len(InvokedIds) : InvokedIds[j] = c.id
SameNameSameLookup ==
    \A i, j \in 1..Len(Processed) :
        Processed[i].name = Processed[j].name =>
            (WasInvoked(Processed[i]) <=> WasInvoked(Processed[j]))
C16_LookupIdempotent ==
    [][ (CatalogBuilt => toolsMap' = toolsMap) /\ SameNameSameLookup' ]_vars

C16_Witness ==
    /\ AgentStreaming /\ pc = "done"
    /\ Len(gathered.tool_calls) = 2
    /\ gathered.tool_calls[1].name = gathered.tool_calls[2].name
    /\ Len(InvokedIds) = 2

(***************************************************************************)
(* C17: after the caller has disconnected from a streaming agentic         *)
(* response no further model chunk is consumed and no tool invocation is   *)
(* started.                                                                *)
(***************************************************************************)
C17_NoWorkAfterDisconnect ==
    [][ callerGone => (chunks' = chunks /\ calls' = calls) ]_vars

(***************************************************************************)
(* C18: in a streaming RAG request the events are one text event for each  *)
(* chunk with a defined content, in chunk order; when the model stream is  *)
(* exhausted exactly one relevant_documents event follows, and it is the   *)
(* last event, chunks or no chunks.                                        *)
(***************************************************************************)
HasContent(chunk) == chunk.hasContent
DefinedTexts(chs) == TextEvents(SelectSeq(chs, HasContent))
C18_RagStreamEvents ==
    (body.knowledgebaseId # NoKb /\ body.stream /\ streamState # "none") =>
        /\ pc \in {"ragPump", "failed"} => events = DefinedTexts(chunks)
        /\ pc \in {"ragEnd", "done"} =>
              events = Append(DefinedTexts(chunks), DocsEvent(rerankedDocuments))

C18_Witness ==
    /\ body.knowledgebaseId # NoKb /\ body.stream /\ pc = "done"
    /\ Len(chunks) = 2
    /\ ~chunks[1].hasContent /\ chunks[2].hasContent
    /\ Len(events) = 2

(***************************************************************************)
(* C19: once the catalog is built, every tool bound to the model is a key  *)
(* of the lookup map.                                                      *)
(***************************************************************************)
C19_BoundToolsResolvable ==
    CatalogBuilt => boundTools \subseteq DOMAIN toolsMap

(***************************************************************************)
(* C20: the evidence reported to the caller (relevant_docs of the reply,   *)
(* the relevant_documents event) is the document sequence placed in the    *)
(* prompt context.                                                         *)
(***************************************************************************)
C20_ReportedEvidenceIsContext ==
    /\ \A i \in 1..Len(replies) :
          replies[i].code = 200 => replies[i].relevant_docs = promptContext
    /\ \A i \in 1..Len(events) :
          IsDocsEvent(events[i]) => events[i].docs = promptContext

====
